---- MODULE Spec2Model ----
(***************************************************************************)
(* Use-Stage Carbon Dashboard (dbl_usestage_dashboard_v0.2.py).            *)
(*                                                                         *)
(* The script is a Streamlit application: the server process re-executes   *)
(* the whole script (one "render pass") on every interaction.  The module  *)
(* models                                                                  *)
(*   - the metric helpers and table builders as operators,                 *)
(*   - the process state kept between passes (the memoized connection of   *)
(*     st.cache_resource, the memoized data of st.cache_data),             *)
(*   - one render pass as a sequence of steps over the script's sections.  *)
(*                                                                         *)
(* Numbers.  The script computes on Python floats.  A quantity x is        *)
(* modelled in fixed point as the integer x * Scale; a product or a        *)
(* quotient is rounded (towards minus infinity) to that resolution, in the *)
(* order in which the script performs the operations.  Years are integers. *)
(***************************************************************************)
EXTENDS Integers, Sequences, FiniteSets, TLC

\* Fixed-point resolution: units per whole.
Scale == 100

\* Longest yearly table (rows of yearly_data) the model enumerates.
MaxRows == 2

\* Line 23: FLOOR_AREA_M2 = 18_000
FLOOR_AREA_M2 == 18000

\* Line 455: LIFE_CYCLE_YEARS = 20
LIFE_CYCLE_YEARS == 20

VARIABLES
    db,          \* the database: [yearly, comfort, cost], each a sequence of rows
    conn,        \* st.cache_resource entry of get_connection: "none" | "open" | "closed"
    data_cache,  \* st.cache_data entry of load_data: NoValue or the loaded triple
    pc,          \* position of the render pass in the script
    data,        \* df_yearly, df_comfort, df_cost_rates of the pass
    section,     \* sidebar radio
    year,        \* sidebar selectbox
    rows,        \* row_year, row_baseline
    kpi,         \* section 6 of the script
    shown,       \* widgets rendered so far in the pass
    out,         \* table / records built by the section-specific content
    err,         \* the exception that ended the pass, if any
    fn,          \* helper under direct call (function-level specification)
    arg,         \* its argument
    res          \* its result

vars == <<db, conn, data_cache, pc, data, section, year, rows, kpi, shown, out,
          err, fn, arg, res>>

appVars == <<db, conn, data_cache, pc, data, section, year, rows, kpi, shown,
             out, err>>

fnVars == <<fn, arg, res>>

-----------------------------------------------------------------------------
(* Values *)

NoValue == [tag |-> "none"]

\* A raised exception: its Python type and the statement that raised it.
Raise(type, at) == [tag |-> "raise", type |-> type, at |-> at]

IsRaise(v) == "tag" \in DOMAIN v /\ v.tag = "raise"

Max(a, b) == IF a >= b THEN a ELSE b

RECURSIVE SumSeq(_)
SumSeq(s) == IF s = <<>> THEN 0 ELSE Head(s) + SumSeq(Tail(s))

Range(s) == {s[i] : i \in DOMAIN s}

\* Python float multiplication, at the model's resolution.
FMul(a, b) == (a * b) \div Scale

\* Python float division, at the model's resolution (b # 0).
FDiv(a, b) == (a * Scale) \div b

\* A float literal such as 100.0 or 1000.0.
Lit(n) == n * Scale

\* Python int(x) of a float: truncation towards zero.
PyInt(x) == IF x >= 0 THEN x \div Scale ELSE -((-x) \div Scale)

\* A row of yearly_data (the columns selected at lines 42-53).
YearlyRow(y, ec, ee, wc, we, sc, se, tc, te, pv, th, off) ==
    [year |-> y,
     energy_consumption |-> ec, energy_emissions |-> ee,
     water_consumption |-> wc, water_emissions |-> we,
     waste_consumption |-> sc, waste_emissions |-> se,
     transport_consumption |-> tc, transport_emissions |-> te,
     solar_pv_kwh |-> pv, solar_thermal_kwh |-> th,
     renewable_offset |-> off]

-----------------------------------------------------------------------------
(* 3. METRIC HELPERS *)

\* Lines 93-99.
total_gross_emissions(row) ==
    row.energy_emissions + row.water_emissions
        + row.waste_emissions + row.transport_emissions

\* Variant of total_net_emissions without the clamp at zero.
total_net_emissions_noclamp(row) ==
    total_gross_emissions(row) - row.renewable_offset

\* Lines 102-105.
total_net_emissions(row) ==
    LET gross == total_gross_emissions(row)
        offset == row.renewable_offset
    IN  Max(0, gross - offset)

\* Lines 108-110: kgCO2e/m2.yr
intensity_per_area(net_tco2) ==
    FDiv(FMul(net_tco2, Lit(1000)), Lit(FLOOR_AREA_M2))

-----------------------------------------------------------------------------
(* pandas helpers *)

\* The orders in which n rows can be arranged.
Perms(n) ==
    {p \in [1..n -> 1..n] : \A i, j \in 1..n : i # j => p[i] # p[j]}

\* The rows of df in the order p.
Reorder(df, p) == [i \in 1..Len(df) |-> df[p[i]]]

\* Variant of sort_values that orders the rows by descending year.
sort_values_desc(df) ==
    {s \in {Reorder(df, p) : p \in Perms(Len(df))} :
        \A i, j \in 1..Len(df) : i < j => s[i].year >= s[j].year}

\* df.sort_values("year") without a stable kind: rows ascending by year, rows of
\* one year in any order.
sort_values(df) ==
    {s \in {Reorder(df, p) : p \in Perms(Len(df))} :
        \A i, j \in 1..Len(df) : i < j => s[i].year <= s[j].year}

\* ORDER BY year DESC of the SQL queries: rows of one year in any order.
order_by_year_desc(tbl) ==
    {s \in {Reorder(tbl, p) : p \in Perms(Len(tbl))} :
        \A i, j \in 1..Len(tbl) : i < j => s[i].year >= s[j].year}

\* df[df[col] == v]: the rows that match, in the order of df.
RECURSIVE Filter(_, _, _)
Filter(df, col, v) ==
    IF df = <<>> THEN <<>>
    ELSE IF Head(df)[col] = v THEN <<Head(df)>> \o Filter(Tail(df), col, v)
         ELSE Filter(Tail(df), col, v)

\* Variant of IsEmpty that never reports an empty frame.
IsEmptyNever(df) == FALSE

\* Line 199: df_yearly.empty
IsEmpty(df) == Len(df) = 0

\* .iloc[0]: the first row, IndexError on an empty frame.
iloc0(df, at) == IF Len(df) = 0 THEN Raise("IndexError", at) ELSE df[1]

-----------------------------------------------------------------------------
(* Table builders *)

\* Lines 118-132: one row of the historical table.
historical_row(r) ==
    [Year |-> r.year,
     Energy_kWh |-> PyInt(r.energy_consumption),
     Energy_tCO2e |-> r.energy_emissions,
     Water_m3 |-> PyInt(r.water_consumption),
     Water_tCO2e |-> r.water_emissions,
     Waste_kg |-> PyInt(r.waste_consumption),
     Waste_tCO2e |-> r.waste_emissions,
     Transport_pkm |-> PyInt(r.transport_consumption),
     Transport_tCO2e |-> r.transport_emissions,
     Renewable_offset_tCO2e |-> r.renewable_offset,
     Net_emissions_tCO2e |-> total_net_emissions(r)]

\* Lines 113-133: the tables build_historical_df may return for df (one per
\* sort order).
build_historical_df(df) ==
    {[i \in 1..Len(s) |-> historical_row(s[i])] : s \in sort_values(df)}

\* Variant of renewables_share that divides by net instead of gross emissions.
renewables_share_of_net(r) ==
    LET net == total_net_emissions(r)
    IN  IF net # 0 THEN FMul(FDiv(r.renewable_offset, net), Lit(100)) ELSE 0

\* Line 142: share = (offset / gross * 100.0) if gross else 0.0
renewables_share(r) ==
    LET gross == total_gross_emissions(r)
        offset == r.renewable_offset
    IN  IF gross # 0 THEN FMul(FDiv(offset, gross), Lit(100)) ELSE 0

\* Lines 139-152: one row of the renewables table.
renewables_row(r) ==
    [Year |-> r.year,
     Solar_PV_kWh |-> PyInt(r.solar_pv_kwh),
     Solar_thermal_kWh |-> PyInt(r.solar_thermal_kwh),
     Total_renewables_kWh |-> PyInt(r.solar_pv_kwh + r.solar_thermal_kwh),
     Offset_tCO2e |-> r.renewable_offset,
     Offset_share |-> renewables_share(r)]

\* Lines 136-153: the tables build_renewables_df may return for df.
build_renewables_df(df) ==
    {[i \in 1..Len(s) |-> renewables_row(s[i])] : s \in sort_values(df)}

\* Lines 160-165: cat_map, in insertion order.
cat_map ==
    << [key |-> "energy", col |-> "energy_consumption", unit |-> "kWh"],
       [key |-> "water", col |-> "water_consumption", unit |-> "m3"],
       [key |-> "waste", col |-> "waste_consumption", unit |-> "kg"],
       [key |-> "transport", col |-> "transport_consumption", unit |-> "pkm"] >>

\* str.capitalize() on the category keys.
capitalize(k) ==
    CASE k = "energy" -> "Energy"
      [] k = "water" -> "Water"
      [] k = "waste" -> "Waste"
      [] k = "transport" -> "Transport"
      [] OTHER -> k

\* Variant of rate_row that falls back to a zero rate when there is no row.
rate_row_or_default(rates, cat_key) ==
    LET m == Filter(rates, "category", cat_key)
    IN  IF Len(m) = 0
        THEN [category |-> cat_key, unit_cost |-> 0, currency |-> "EUR"]
        ELSE m[1]

\* Line 169: the first rate row of the category, IndexError when there is none.
rate_row(rates, cat_key) ==
    iloc0(Filter(rates, "category", cat_key), "rate_row")

\* Lines 168-181: the row appended for one category (its rate row found).
cost_row(row, c, rr) ==
    [Category |-> capitalize(c.key),
     Consumption |-> row[c.col],
     Unit |-> c.unit,
     Unit_cost |-> [rate |-> rr.unit_cost, currency |-> rr.currency],
     Annual_cost |-> FMul(row[c.col], rr.unit_cost)]

\* Variant of cost_total that leaves the last category out of the sum.
cost_total_first_three(rws) ==
    SumSeq([i \in 1..(Len(rws) - 1) |-> rws[i].Annual_cost])

\* Line 184: total = df["Annual cost"].sum()
cost_total(rws) == SumSeq([i \in 1..Len(rws) |-> rws[i].Annual_cost])

\* Lines 185-188: the share column.
share_of_total(cost, total) ==
    IF total > 0 THEN FMul(FDiv(cost, total), Lit(100)) ELSE 0

\* Lines 156-190.
build_cost_df(row, rates) ==
    LET rrs == [i \in 1..Len(cat_map) |-> rate_row(rates, cat_map[i].key)]
        bad == {i \in 1..Len(cat_map) : IsRaise(rrs[i])}
    IN  IF bad # {}
        THEN rrs[CHOOSE i \in bad : \A j \in bad : i <= j]
        ELSE LET rws == [i \in 1..Len(cat_map) |-> cost_row(row, cat_map[i], rrs[i])]
                 total == cost_total(rws)
             IN  [tag |-> "ok",
                  df |-> [i \in 1..Len(rws) |->
                            [Category |-> rws[i].Category,
                             Consumption |-> rws[i].Consumption,
                             Unit |-> rws[i].Unit,
                             Unit_cost |-> rws[i].Unit_cost,
                             Annual_cost |-> rws[i].Annual_cost,
                             Share_of_total |->
                                 share_of_total(rws[i].Annual_cost, total)]],
                  total |-> total]

\* Line 456: lcc_total = total_annual_cost * LIFE_CYCLE_YEARS
lcc_total(total_annual_cost) == total_annual_cost * LIFE_CYCLE_YEARS

-----------------------------------------------------------------------------
(* 6. KPI CALCULATIONS (operators for lines 232-259) *)

\* Variant of delta_net with the difference reversed (an increase positive).
delta_net_reversed(net_em, baseline_net) ==
    IF baseline_net # 0
    THEN FMul(FDiv(net_em - baseline_net, baseline_net), Lit(100))
    ELSE 0

\* Lines 235-239.
delta_net(net_em, baseline_net) ==
    IF baseline_net # 0
    THEN FMul(FDiv(baseline_net - net_em, baseline_net), Lit(100))
    ELSE 0

\* Lines 243-247.
delta_intensity(net_intensity, baseline_intensity) ==
    IF baseline_intensity # 0
    THEN FMul(FDiv(baseline_intensity - net_intensity, baseline_intensity),
              Lit(100))
    ELSE 0

\* Lines 251-255.
delta_energy(energy_cons, baseline_energy_cons) ==
    IF baseline_energy_cons # 0
    THEN FMul(FDiv(baseline_energy_cons - energy_cons, baseline_energy_cons),
              Lit(100))
    ELSE 0

\* Line 259: offset_share = (offset / gross_em * 100.0) if gross_em else 0.0
offset_share(offset, gross_em) ==
    IF gross_em # 0 THEN FMul(FDiv(offset, gross_em), Lit(100)) ELSE 0

\* Lines 232-259, on the two rows selected at lines 224-225.
kpi_calculations(row_year, row_baseline) ==
    LET net_em == total_net_emissions(row_year)
        baseline_net == total_net_emissions(row_baseline)
        net_intensity == intensity_per_area(net_em)
        baseline_intensity == intensity_per_area(baseline_net)
        energy_cons == row_year.energy_consumption
        baseline_energy_cons == row_baseline.energy_consumption
        gross_em == total_gross_emissions(row_year)
        offset == row_year.renewable_offset
    IN  [tag |-> "kpi",
         net_em |-> net_em,
         baseline_net |-> baseline_net,
         delta_net |-> delta_net(net_em, baseline_net),
         net_intensity |-> net_intensity,
         baseline_intensity |-> baseline_intensity,
         delta_intensity |-> delta_intensity(net_intensity, baseline_intensity),
         energy_cons |-> energy_cons,
         baseline_energy_cons |-> baseline_energy_cons,
         delta_energy |-> delta_energy(energy_cons, baseline_energy_cons),
         gross_em |-> gross_em,
         offset |-> offset,
         offset_share |-> offset_share(offset, gross_em)]

\* Line 203: years = sorted(df_yearly["year"].unique(), reverse=True); the
\* selectbox offers exactly these.
years(df_yearly) == {df_yearly[i].year : i \in DOMAIN df_yearly}

\* Line 204: baseline_year = int(df_yearly["year"].min()), df_yearly not empty.
baseline_year(df_yearly) ==
    CHOOSE y \in years(df_yearly) : \A z \in years(df_yearly) : y <= z

\* Line 215: the options of the sidebar radio.
Sections ==
    {"Overview", "Energy", "Water", "Waste", "Transport", "Comfort", "Cost"}

\* Lines 378-382: key_map.
key_map(sec) ==
    CASE sec = "Water" ->
           [cons |-> "water_consumption", em |-> "water_emissions", unit |-> "m3"]
      [] sec = "Waste" ->
           [cons |-> "waste_consumption", em |-> "waste_emissions", unit |-> "kg"]
      [] sec = "Transport" ->
           [cons |-> "transport_consumption", em |-> "transport_emissions",
            unit |-> "pkm"]

\* Lines 399-434: the four comfort metrics and their delta labels.
comfort_metrics(row_comfort) ==
    [tag |-> "comfort",
     iaq |-> row_comfort.iaq_score,
     iaq_label |-> IF row_comfort.iaq_score >= 85 THEN "Good IAQ" ELSE "",
     thermal |-> row_comfort.thermal_hours,
     thermal_label |-> IF row_comfort.thermal_hours <= 150
                       THEN "Within comfort targets" ELSE "Above target",
     lighting |-> row_comfort.lighting_score,
     lighting_label |-> IF row_comfort.lighting_score >= 80
                        THEN "Good daylight & glare control" ELSE "",
     acoustic |-> row_comfort.acoustic_score,
     acoustic_label |-> IF row_comfort.acoustic_score >= 80
                        THEN "Good" ELSE "Consider noise mitigation"]

\* Lines 469-510: the categories of data_sources left by the section filter.
data_sources == {"Energy", "Water", "Waste", "Transport", "Comfort"}

src_df(sec) ==
    IF sec # "Overview" THEN {c \in data_sources : c = sec} ELSE data_sources

-----------------------------------------------------------------------------
(* The databases the model enumerates *)

Years == {2020, 2021}

\* Scenario A of the specification: gross 13.5, offset 5, net 8.5.
ShapeA(y) ==
    YearlyRow(y, Lit(1000), Lit(10), Lit(200), Lit(2), Lit(500), Lit(1),
              Lit(3000), Scale \div 2, Lit(400), Lit(100), Lit(5))

\* Scenario B: the offset exceeds gross emissions.
ShapeB(y) ==
    YearlyRow(y, Lit(1200), Lit(10), Lit(200), Lit(2), Lit(500), Lit(1),
              Lit(3000), Scale \div 2, Lit(400), Lit(100), Lit(20))

\* Nothing consumed or emitted, yet an offset is recorded.
ShapeZero(y) ==
    YearlyRow(y, 0, 0, 0, 0, 0, 0, 0, 0, Lit(400), 0, Lit(5))

\* Scenario C: net 100 and net 80.
ShapeC100(y) ==
    YearlyRow(y, Lit(2000), Lit(100), 0, 0, 0, 0, 0, 0, 0, 0, 0)

ShapeC80(y) ==
    YearlyRow(y, Lit(1600), Lit(80), 0, 0, 0, 0, 0, 0, 0, 0, 0)

SampleRows ==
    UNION {{ShapeA(y), ShapeB(y), ShapeZero(y), ShapeC100(y), ShapeC80(y)} :
             y \in Years}

SeqsUpTo(S, n) == UNION {[1..k -> S] : k \in 0..n}

YearlyTables == SeqsUpTo(SampleRows, MaxRows)

ComfortRow(y, iaq, th, li, ac) ==
    [year |-> y, iaq_score |-> iaq, thermal_hours |-> th,
     lighting_score |-> li, acoustic_score |-> ac]

ComfortFull ==
    << ComfortRow(2020, 90, 120, 85, 70), ComfortRow(2021, 80, 200, 75, 85) >>

\* comfort_data holds no row for 2021.
ComfortPartial == << ComfortRow(2020, 90, 120, 85, 70) >>

ComfortTables == {ComfortFull, ComfortPartial, << >>}

CostRow(c, u) == [category |-> c, unit_cost |-> u, currency |-> "EUR"]

\* Scenario D: 0.25 EUR/kWh, 3 EUR/m3, 0.1 EUR/kg, 0.05 EUR/pkm.
RatesD ==
    << CostRow("energy", Scale \div 4), CostRow("water", Lit(3)),
       CostRow("waste", Scale \div 10), CostRow("transport", Scale \div 20) >>

\* Scenario E: no rate for waste.
RatesE ==
    << CostRow("energy", Scale \div 4), CostRow("water", Lit(3)),
       CostRow("transport", Scale \div 20) >>

\* Every yearly table with complete comfort and cost tables, and two yearly rows
\* with every comfort and cost table.
Databases ==
    {[yearly |-> y, comfort |-> ComfortFull, cost |-> RatesD] : y \in YearlyTables}
    \cup
    {[yearly |-> y, comfort |-> c, cost |-> k] :
        y \in SeqsUpTo({ShapeA(2020), ShapeB(2021)}, MaxRows),
        c \in ComfortTables, k \in {RatesD, RatesE}}

-----------------------------------------------------------------------------
(* The application process *)

ErrorMessage == "st.error: No data found in yearly_data table."

HeaderWidgets == {"title", "caption", "subheader", "kpi_cards", "pie_chart"}

\* No pass is running: the pass's names are unbound.
PassReset ==
    /\ data' = NoValue
    /\ section' = "none"
    /\ year' = 0
    /\ rows' = NoValue
    /\ kpi' = NoValue
    /\ shown' = {}
    /\ out' = NoValue
    /\ err' = NoValue

Init ==
    /\ db \in Databases
    /\ conn = "none"
    /\ data_cache = NoValue
    /\ pc = "idle"
    /\ data = NoValue
    /\ section = "none"
    /\ year = 0
    /\ rows = NoValue
    /\ kpi = NoValue
    /\ shown = {}
    /\ out = NoValue
    /\ err = NoValue
    /\ fn = "none"
    /\ arg = NoValue
    /\ res = NoValue

\* The pass ends with an uncaught exception.
Fail(e) ==
    /\ pc' = "failed"
    /\ err' = e

\* Lines 35-86 behind st.cache_data, the entry present: load_data is not run.
LoadDataHit ==
    /\ pc = "idle"
    /\ data_cache # NoValue
    /\ data' = data_cache
    /\ pc' = "loaded"
    /\ UNCHANGED <<db, conn, data_cache, section, year, rows, kpi, shown, out, err>>
    /\ UNCHANGED fnVars

\* Lines 35-86, no entry in st.cache_data: get_connection() (lines 30-32, behind
\* st.cache_resource) connects when it holds no connection and returns the held
\* one otherwise; the three queries run on it; it is closed; the result is
\* memoized.
LoadDataRun ==
    /\ pc = "idle"
    /\ data_cache = NoValue
    /\ conn # "closed"
    /\ \E y \in order_by_year_desc(db.yearly), c \in order_by_year_desc(db.comfort) :
          LET loaded == [tag |-> "data", yearly |-> y, comfort |-> c,
                         cost |-> db.cost]
          IN  /\ data' = loaded
              /\ data_cache' = loaded
    /\ conn' = "closed"
    /\ pc' = "loaded"
    /\ UNCHANGED <<db, section, year, rows, kpi, shown, out, err>>
    /\ UNCHANGED fnVars

\* Lines 35-58, no entry in st.cache_data while st.cache_resource holds the
\* connection an earlier execution closed at line 85: the first pd.read_sql
\* raises (psycopg2.InterfaceError, connection already closed).
LoadDataOnClosed ==
    /\ pc = "idle"
    /\ data_cache = NoValue
    /\ conn = "closed"
    /\ Fail(Raise("InterfaceError", "read_sql"))
    /\ UNCHANGED <<db, conn, data_cache, data, section, year, rows, kpi, shown, out>>
    /\ UNCHANGED fnVars

\* Lines 199-201: st.error and st.stop().
StopOnEmpty ==
    /\ pc = "loaded"
    /\ IsEmpty(data.yearly)
    /\ shown' = shown \cup {ErrorMessage}
    /\ pc' = "stopped"
    /\ UNCHANGED <<db, conn, data_cache, data, section, year, rows, kpi, out, err>>
    /\ UNCHANGED fnVars

\* Lines 203-225: years and baseline_year, the sidebar's two choices, and the
\* two row lookups.  min() of an empty column is NaN, and int(NaN) raises.
Sidebar ==
    /\ pc = "loaded"
    /\ ~IsEmpty(data.yearly)
    /\ IF Len(data.yearly) = 0
       THEN /\ Fail(Raise("ValueError", "baseline_year"))
            /\ UNCHANGED <<section, year, rows>>
       ELSE \E sec \in Sections, y \in years(data.yearly) :
              LET row_year == iloc0(Filter(data.yearly, "year", y), "row_year")
                  row_baseline ==
                      iloc0(Filter(data.yearly, "year", baseline_year(data.yearly)),
                            "row_baseline")
              IN  /\ section' = sec
                  /\ year' = y
                  /\ IF IsRaise(row_year) THEN Fail(row_year) /\ rows' = rows
                     ELSE IF IsRaise(row_baseline)
                          THEN Fail(row_baseline) /\ rows' = rows
                          ELSE /\ rows' = [tag |-> "rows", row_year |-> row_year,
                                           row_baseline |-> row_baseline]
                               /\ pc' = "kpi"
                               /\ err' = err
    /\ UNCHANGED <<db, conn, data_cache, data, kpi, shown, out>>
    /\ UNCHANGED fnVars

\* Lines 232-259.
KpiCalculations ==
    /\ pc = "kpi"
    /\ kpi' = kpi_calculations(rows.row_year, rows.row_baseline)
    /\ pc' = "header"
    /\ UNCHANGED <<db, conn, data_cache, data, section, year, rows, shown, out, err>>
    /\ UNCHANGED fnVars

\* Lines 266-318: title, caption, subheader, the four KPI cards, the pie chart.
PageHeader ==
    /\ pc = "header"
    /\ shown' = shown \cup HeaderWidgets
    /\ pc' = "section"
    /\ UNCHANGED <<db, conn, data_cache, data, section, year, rows, kpi, out, err>>
    /\ UNCHANGED fnVars

\* Lines 325-328.
SectionOverview ==
    /\ pc = "section"
    /\ section = "Overview"
    /\ \E t \in build_historical_df(data.yearly) :
          out' = [tag |-> "Overview", hist_df |-> t]
    /\ shown' = shown \cup {"hist_df"}
    /\ pc' = "sources"
    /\ UNCHANGED <<db, conn, data_cache, data, section, year, rows, kpi, err>>
    /\ UNCHANGED fnVars

\* Lines 330-375.
SectionEnergy ==
    /\ pc = "section"
    /\ section = "Energy"
    /\ \E t \in build_renewables_df(data.yearly) :
          out' = [tag |-> "Energy",
                  energy_df |-> << rows.row_year.energy_consumption,
                                   rows.row_year.energy_emissions,
                                   rows.row_year.renewable_offset >>,
                  ren_df |-> t]
    /\ shown' = shown \cup {"energy_df", "fig_ren"}
    /\ pc' = "sources"
    /\ UNCHANGED <<db, conn, data_cache, data, section, year, rows, kpi, err>>
    /\ UNCHANGED fnVars

\* Lines 377-392.
SectionDetail ==
    /\ pc = "section"
    /\ section \in {"Water", "Waste", "Transport"}
    /\ out' = [tag |-> section,
               df_sec |-> << rows.row_year[key_map(section).cons],
                             rows.row_year[key_map(section).em] >>,
               unit |-> key_map(section).unit]
    /\ shown' = shown \cup {"df_sec"}
    /\ pc' = "sources"
    /\ UNCHANGED <<db, conn, data_cache, data, section, year, rows, kpi, err>>
    /\ UNCHANGED fnVars

\* Lines 394-439.
SectionComfort ==
    /\ pc = "section"
    /\ section = "Comfort"
    /\ LET row_comfort == iloc0(Filter(data.comfort, "year", year), "row_comfort")
       IN  IF IsRaise(row_comfort)
           THEN /\ Fail(row_comfort)
                /\ UNCHANGED <<out, shown>>
           ELSE /\ out' = comfort_metrics(row_comfort)
                /\ shown' = shown \cup {"comfort_metrics", "info"}
                /\ pc' = "sources"
                /\ err' = err
    /\ UNCHANGED <<db, conn, data_cache, data, section, year, rows, kpi>>
    /\ UNCHANGED fnVars

\* Lines 441-461.
SectionCost ==
    /\ pc = "section"
    /\ section = "Cost"
    /\ LET r == build_cost_df(rows.row_year, data.cost)
       IN  IF IsRaise(r)
           THEN /\ Fail(r)
                /\ UNCHANGED <<out, shown>>
           ELSE /\ out' = [tag |-> "Cost", cost_df |-> r.df,
                           total_annual_cost |-> r.total,
                           lcc_total |-> lcc_total(r.total)]
                /\ shown' = shown \cup {"cost_df", "fig_cost", "lcc_metric"}
                /\ pc' = "sources"
                /\ err' = err
    /\ UNCHANGED <<db, conn, data_cache, data, section, year, rows, kpi>>
    /\ UNCHANGED fnVars

\* Lines 467-510: the data sources table, filtered by section.
DataSources ==
    /\ pc = "sources"
    /\ shown' = shown \cup {"src_df:" \o c : c \in src_df(section)}
    /\ pc' = "done"
    /\ UNCHANGED <<db, conn, data_cache, data, section, year, rows, kpi, out, err>>
    /\ UNCHANGED fnVars

\* The pass is over (to the end, by st.stop(), or by an exception); the next
\* interaction runs the script again from its first line.
Rerun ==
    /\ pc \in {"done", "stopped", "failed"}
    /\ pc' = "idle"
    /\ PassReset
    /\ UNCHANGED <<db, conn, data_cache>>
    /\ UNCHANGED fnVars

\* st.cache_data loses load_data's entry (load_data.clear(), st.cache_data.clear(),
\* or a new key after an edit of load_data); st.cache_resource keeps its own.
ClearDataCache ==
    /\ pc = "idle"
    /\ data_cache # NoValue
    /\ data_cache' = NoValue
    /\ UNCHANGED <<db, conn, pc, data, section, year, rows, kpi, shown, out, err>>
    /\ UNCHANGED fnVars

\* Both caches are cleared ("Clear cache" of the application menu): the held
\* connection is dropped, closed or not.
ClearCaches ==
    /\ pc = "idle"
    /\ conn # "none"
    /\ data_cache' = NoValue
    /\ conn' = "none"
    /\ UNCHANGED <<db, pc, data, section, year, rows, kpi, shown, out, err>>
    /\ UNCHANGED fnVars

Next ==
    \/ LoadDataHit
    \/ LoadDataRun
    \/ LoadDataOnClosed
    \/ StopOnEmpty
    \/ Sidebar
    \/ KpiCalculations
    \/ PageHeader
    \/ SectionOverview
    \/ SectionEnergy
    \/ SectionDetail
    \/ SectionComfort
    \/ SectionCost
    \/ DataSources
    \/ Rerun
    \/ ClearDataCache
    \/ ClearCaches

Spec == Init /\ [][Next]_vars

-----------------------------------------------------------------------------
(* The helpers under direct call *)

\* Records for total_net_emissions: the five fields it reads vary.
NetRows ==
    {YearlyRow(2020, 0, ee, 0, we, 0, se, 0, te, 0, 0, off) :
        ee \in {0, Lit(10), Lit(80)}, we \in {0, Lit(2)}, se \in {0, Lit(1)},
        te \in {0, Scale \div 2},
        off \in {0, Lit(5), Lit(13) + Scale \div 2, Lit(20)}}

\* Records for build_cost_df: the four consumption fields vary (Scenario D).
CostRows ==
    {YearlyRow(2020, ec, 0, wc, 0, sc, 0, tc, 0, 0, 0, 0) :
        ec \in {0, Lit(1000)}, wc \in {0, Lit(200)}, sc \in {0, Lit(500)},
        tc \in {0, Lit(3000)}}

RECURSIVE SubSeqs(_)
SubSeqs(s) ==
    IF s = <<>> THEN {<<>>}
    ELSE LET rest == SubSeqs(Tail(s))
         IN  rest \cup {<<Head(s)>> \o t : t \in rest}

\* Rate tables: every selection of the Scenario D rates, the same rates in
\* another order, and a table with two rows for one category.
RateTables ==
    SubSeqs(RatesD)
    \cup {<< RatesD[4], RatesD[3], RatesD[2], RatesD[1] >>,
          RatesD \o << CostRow("water", Lit(2)) >>,
          << CostRow("water", Lit(2)) >> \o RatesE}

\* Records for build_historical_df: whole and fractional consumption figures,
\* fractional emission figures.
HistRows ==
    UNION {{YearlyRow(y, Lit(1000) + f, Lit(10) + Scale \div 2,
                      Lit(200) + f, Lit(2) + Scale \div 4,
                      Lit(500) + f, Lit(1), Lit(3000) + f, Scale \div 2,
                      0, 0, Lit(5)) :
               f \in {0, (4 * Scale) \div 10, (6 * Scale) \div 10}} :
             y \in {2019, 2020, 2021}}

FnArgs ==
    {[fn |-> "total_net_emissions", row |-> r] : r \in NetRows}
    \cup {[fn |-> "build_cost_df", row |-> r, rates |-> k] :
            r \in CostRows, k \in RateTables}
    \cup {[fn |-> "build_historical_df", df |-> d] :
            d \in SeqsUpTo(HistRows, MaxRows)}

InitFn ==
    /\ db = [yearly |-> <<>>, comfort |-> <<>>, cost |-> <<>>]
    /\ conn = "none"
    /\ data_cache = NoValue
    /\ pc = "idle"
    /\ data = NoValue
    /\ section = "none"
    /\ year = 0
    /\ rows = NoValue
    /\ kpi = NoValue
    /\ shown = {}
    /\ out = NoValue
    /\ err = NoValue
    /\ arg \in FnArgs
    /\ fn = arg.fn
    /\ res = NoValue

\* Lines 93-105.
CallTotalNetEmissions ==
    /\ fn = "total_net_emissions"
    /\ res = NoValue
    /\ res' = [tag |-> "ok",
               gross |-> total_gross_emissions(arg.row),
               net |-> total_net_emissions(arg.row)]
    /\ UNCHANGED <<fn, arg>>
    /\ UNCHANGED appVars

\* Lines 156-190.
CallBuildCostDf ==
    /\ fn = "build_cost_df"
    /\ res = NoValue
    /\ res' = build_cost_df(arg.row, arg.rates)
    /\ UNCHANGED <<fn, arg>>
    /\ UNCHANGED appVars

\* Lines 113-133.
CallBuildHistoricalDf ==
    /\ fn = "build_historical_df"
    /\ res = NoValue
    /\ \E t \in build_historical_df(arg.df) : res' = [tag |-> "ok", df |-> t]
    /\ UNCHANGED <<fn, arg>>
    /\ UNCHANGED appVars

NextFn ==
    \/ CallTotalNetEmissions
    \/ CallBuildCostDf
    \/ CallBuildHistoricalDf

FnSpec == InitFn /\ [][NextFn]_vars

-----------------------------------------------------------------------------
(* Properties *)

\* The sum of the four category emission fields of a record.
GrossOf(r) ==
    r.energy_emissions + r.water_emissions + r.waste_emissions
        + r.transport_emissions

\* q is the quotient a / b at the model's resolution (b > 0).
IsQuotient(q, a, b) == q * b <= a * Scale /\ a * Scale < (q + 1) * b

\* p is the percentage a / b * 100 as the script computes it: the quotient,
\* then the product by 100.0.
IsPercent(p, a, b) == p % 100 = 0 /\ IsQuotient(p \div 100, a, b)

\* C1: for every yearly record with non-negative emission fields and offset,
\* total_net_emissions is >= 0, is gross - offset when offset <= gross, and is 0
\* when offset > gross, gross being the sum of the four emission fields.
C1_NetEmissionsClamped ==
    (fn = "total_net_emissions" /\ res # NoValue) =>
        LET g == GrossOf(arg.row)
            off == arg.row.renewable_offset
        IN  /\ res.gross = g
            /\ res.net >= 0
            /\ off <= g => res.net = g - off
            /\ off > g => res.net = 0

\* Scenario B has been computed: gross 13.5, offset 20, net 0.
C1_Witness ==
    /\ fn = "total_net_emissions"
    /\ res # NoValue
    /\ GrossOf(arg.row) = Lit(13) + Scale \div 2
    /\ arg.row.renewable_offset = Lit(20)
    /\ res.net = 0

Categories == {"energy", "water", "waste", "transport"}

RatedCategories(rates) == {rates[i].category : i \in DOMAIN rates}

\* C3: build_cost_df on a rates collection with no row for one of the four
\* categories fails (the lookup of the rate row raises: the specification's
\* MissingRateError is the IndexError of .iloc[0]) and returns no table and no
\* total; on a collection with a rate for every category it returns exactly
\* four rows, one per category.
C3_MissingRateFails ==
    (fn = "build_cost_df" /\ res # NoValue) =>
        IF Categories \subseteq RatedCategories(arg.rates)
        THEN /\ res.tag = "ok"
             /\ Len(res.df) = 4
             /\ {res.df[i].Category : i \in 1..Len(res.df)}
                  = {"Energy", "Water", "Waste", "Transport"}
        ELSE /\ res.tag = "raise"
             /\ res.type = "IndexError"
             /\ res.at = "rate_row"
             /\ DOMAIN res \cap {"df", "total"} = {}

\* Scenario E has been run: the rates have no row for waste and the call failed.
C3_Witness ==
    /\ fn = "build_cost_df"
    /\ arg.rates = RatesE
    /\ res # NoValue
    /\ res.tag = "raise"

\* The unit cost build_cost_df uses for a category: that of its first rate row.
FirstRate(rates, c) ==
    rates[CHOOSE i \in DOMAIN rates :
            /\ rates[i].category = c
            /\ \A j \in DOMAIN rates : rates[j].category = c => i <= j].unit_cost

\* C4: for every yearly record and complete rate set, the total build_cost_df
\* returns is the sum of the four annual costs, each consumption x unit cost;
\* when total > 0 the shares sum to 100 (to within one step of the quotient's
\* resolution per row); when total = 0 every share is 0.0.
C4_CostTotalAndShares ==
    (fn = "build_cost_df" /\ res # NoValue /\ res.tag = "ok") =>
        LET n == Len(res.df)
            cons == [i \in 1..n |-> arg.row[cat_map[i].col]]
            rate == [i \in 1..n |-> FirstRate(arg.rates, cat_map[i].key)]
            shares == SumSeq([i \in 1..n |-> res.df[i].Share_of_total])
        IN  /\ n = 4
            /\ \A i \in 1..n :
                 /\ res.df[i].Annual_cost * Scale <= cons[i] * rate[i]
                 /\ cons[i] * rate[i] < (res.df[i].Annual_cost + 1) * Scale
            /\ res.total = res.df[1].Annual_cost + res.df[2].Annual_cost
                             + res.df[3].Annual_cost + res.df[4].Annual_cost
            /\ res.total > 0 =>
                 /\ shares <= Lit(100)
                 /\ shares > Lit(100) - 100 * n
                 /\ \A i \in 1..n :
                      IsPercent(res.df[i].Share_of_total,
                                res.df[i].Annual_cost, res.total)
            /\ res.total = 0 => \A i \in 1..n : res.df[i].Share_of_total = 0

\* Scenario D has been computed: annual costs 250, 600, 50, 150, total 1050,
\* life cycle cost 21000.
C4_Witness ==
    /\ fn = "build_cost_df"
    /\ arg.rates = RatesD
    /\ res # NoValue
    /\ res.tag = "ok"
    /\ res.df[1].Annual_cost = Lit(250)
    /\ res.df[2].Annual_cost = Lit(600)
    /\ res.df[3].Annual_cost = Lit(50)
    /\ res.df[4].Annual_cost = Lit(150)
    /\ res.total = Lit(1050)
    /\ lcc_total(res.total) = Lit(21000)
    /\ SumSeq([i \in 1..4 |-> res.df[i].Share_of_total]) > 0

UniqueYears(df) ==
    \A i, j \in DOMAIN df : i # j => df[i].year # df[j].year

\* The fields build_historical_df passes through identify the record a row
\* was built from.
RowOf(h, r) ==
    /\ h.Year = r.year
    /\ h.Energy_tCO2e = r.energy_emissions
    /\ h.Water_tCO2e = r.water_emissions
    /\ h.Waste_tCO2e = r.waste_emissions
    /\ h.Transport_tCO2e = r.transport_emissions
    /\ h.Renewable_offset_tCO2e = r.renewable_offset

\* C5: for every collection of yearly records in any order, build_historical_df
\* returns exactly one row per input record (none dropped, none synthesized),
\* and when the input years are unique the Year column is strictly ascending.
C5_HistoricalRowsAndOrder ==
    (fn = "build_historical_df" /\ res # NoValue) =>
        /\ Len(res.df) = Len(arg.df)
        /\ \E p \in Perms(Len(arg.df)) :
             \A i \in 1..Len(arg.df) : RowOf(res.df[i], arg.df[p[i]])
        /\ UniqueYears(arg.df) =>
             \A i, j \in 1..Len(res.df) : i < j => res.df[i].Year < res.df[j].Year

\* A table given in descending year order has been rebuilt in ascending order.
C5_Witness ==
    /\ fn = "build_historical_df"
    /\ res # NoValue
    /\ Len(arg.df) = 2
    /\ arg.df[1].year > arg.df[2].year
    /\ res.df[1].Year < res.df[2].Year

\* The nearest whole number of a non-negative quantity.
Nearest(x) == (x + Scale \div 2) \div Scale

\* C8: in every row of build_historical_df each of the four consumption figures
\* is the input consumption rounded to the nearest whole number (1000.6 is
\* reported as 1001), and the emission figures, the renewable offset and net
\* emissions are the input's, unchanged.
C8_ConsumptionRoundedToNearest ==
    (fn = "build_historical_df" /\ res # NoValue) =>
        \E p \in Perms(Len(arg.df)) :
            \A i \in 1..Len(arg.df) :
                LET r == arg.df[p[i]]
                    h == res.df[i]
                IN  /\ RowOf(h, r)
                    /\ h.Net_emissions_tCO2e = Max(0, GrossOf(r) - r.renewable_offset)
                    /\ h.Energy_kWh = Nearest(r.energy_consumption)
                    /\ h.Water_m3 = Nearest(r.water_consumption)
                    /\ h.Waste_kg = Nearest(r.waste_consumption)
                    /\ h.Transport_pkm = Nearest(r.transport_consumption)

\* C2: when the yearly dataset load_data returned is empty, the pass shows the
\* error message and halts: no row is selected, no KPI is computed, and no KPI
\* card, chart or section table is rendered in that pass.
C2_EmptyDatasetHalts ==
    (data # NoValue /\ Len(data.yearly) = 0) =>
        /\ pc \in {"loaded", "stopped"}
        /\ section = "none"
        /\ rows = NoValue
        /\ kpi = NoValue
        /\ out = NoValue
        /\ err = NoValue
        /\ pc = "loaded" => shown = {}
        /\ pc = "stopped" => shown = {ErrorMessage}

\* A pass on an empty yearly dataset has stopped behind its error message.
C2_Witness ==
    /\ data # NoValue
    /\ Len(data.yearly) = 0
    /\ pc = "stopped"
    /\ shown = {ErrorMessage}

\* d is the delta of current against baseline: 0 on a zero baseline, 0 when
\* current equals the baseline, otherwise (baseline - current) / baseline * 100,
\* not negative for a reduction and negative for an increase.
IsDelta(d, baseline, current) ==
    /\ baseline = 0 => d = 0
    /\ (baseline # 0 /\ current = baseline) => d = 0
    /\ baseline > 0 =>
         /\ IsPercent(d, baseline - current, baseline)
         /\ current < baseline => d >= 0
         /\ current > baseline => d < 0

\* C6: each baseline delta (net emissions, carbon intensity, energy
\* consumption) is (baseline - current) / baseline * 100, a reduction being
\* positive; it is 0.0 on a zero baseline and 0.0 when current equals a nonzero
\* baseline, in particular when the reporting year is the baseline year, the
\* minimum year of the dataset, whose row supplies the baseline values.
C6_BaselineDeltas ==
    kpi # NoValue =>
        LET minimal == {i \in DOMAIN data.yearly :
                          \A j \in DOMAIN data.yearly :
                              data.yearly[i].year <= data.yearly[j].year}
        IN  /\ IsDelta(kpi.delta_net, kpi.baseline_net, kpi.net_em)
            /\ IsDelta(kpi.delta_intensity, kpi.baseline_intensity,
                       kpi.net_intensity)
            /\ IsDelta(kpi.delta_energy, kpi.baseline_energy_cons, kpi.energy_cons)
            /\ \E i \in minimal :
                 /\ kpi.baseline_energy_cons = data.yearly[i].energy_consumption
                 /\ kpi.baseline_net
                      = Max(0, GrossOf(data.yearly[i])
                                 - data.yearly[i].renewable_offset)
            /\ \E i \in DOMAIN data.yearly :
                 /\ data.yearly[i].year = year
                 /\ kpi.energy_cons = data.yearly[i].energy_consumption
                 /\ kpi.net_em
                      = Max(0, GrossOf(data.yearly[i])
                                 - data.yearly[i].renewable_offset)
            /\ (\E i \in minimal : data.yearly[i].year = year) =>
                 /\ kpi.delta_net = 0
                 /\ kpi.delta_intensity = 0
                 /\ kpi.delta_energy = 0

\* Scenario C has been computed: baseline net 100, current net 80, delta 20.0,
\* with the intensity and energy deltas positive too.
C6_Witness ==
    /\ kpi # NoValue
    /\ kpi.baseline_net = Lit(100)
    /\ kpi.net_em = Lit(80)
    /\ kpi.delta_net = Lit(20)
    /\ kpi.delta_intensity > 0
    /\ kpi.delta_energy = Lit(20)

\* s is the offset share of record r: offset / gross * 100, and 0 on zero gross.
IsShare(s, r) ==
    IF GrossOf(r) = 0 THEN s = 0
    ELSE IsPercent(s, r.renewable_offset, GrossOf(r))

\* C7: the renewable offset share is offset / gross * 100 when gross emissions
\* are nonzero and 0.0 when they are zero, whatever the offset; the KPI of the
\* reporting year and that year's row of build_renewables_df give the same
\* share.
C7_OffsetShare ==
    kpi # NoValue =>
        /\ IsShare(kpi.offset_share, rows.row_year)
        /\ (out # NoValue /\ out.tag = "Energy") =>
             /\ Len(out.ren_df) = Len(data.yearly)
             /\ \A i \in DOMAIN out.ren_df :
                  \E j \in DOMAIN data.yearly :
                     /\ out.ren_df[i].Year = data.yearly[j].year
                     /\ out.ren_df[i].Offset_tCO2e = data.yearly[j].renewable_offset
                     /\ IsShare(out.ren_df[i].Offset_share, data.yearly[j])
             /\ \E i \in DOMAIN out.ren_df :
                  /\ out.ren_df[i].Year = year
                  /\ out.ren_df[i].Offset_share = kpi.offset_share
             /\ Cardinality({j \in DOMAIN data.yearly :
                               data.yearly[j].year = year}) = 1 =>
                  \A i \in DOMAIN out.ren_df :
                     out.ren_df[i].Year = year =>
                        out.ren_df[i].Offset_share = kpi.offset_share

\* The Energy section has been built for a reporting year with zero gross
\* emissions and a nonzero offset, beside a year with a nonzero share.
C7_Witness ==
    /\ kpi # NoValue
    /\ out # NoValue
    /\ out.tag = "Energy"
    /\ kpi.gross_em = 0
    /\ kpi.offset > 0
    /\ kpi.offset_share = 0
    /\ \E i \in DOMAIN out.ren_df : out.ren_df[i].Offset_share > 0

\* C9: for every reporting year the sidebar offers and every section, the pass
\* finds the rows it looks up: row_year and row_baseline, and in the Comfort
\* section the comfort row of the year; no pass fails on a missing row.
C9_LookedUpRowsFound ==
    ~(IsRaise(err) /\ err.at \in {"row_year", "row_baseline", "row_comfort"})

\* C10: after any sequence of load_data executions in one process, also one
\* after the memoized data was cleared and the memoized connection kept, every
\* query of load_data runs on an open connection: none is issued on a
\* connection an earlier execution closed.
C10_QueriesOnOpenConnection ==
    ~(IsRaise(err) /\ err.type = "InterfaceError" /\ err.at = "read_sql")

====
